---- MODULE Spec2Model ----
(***************************************************************************)
(* Model of the `colour` crate (src/lib.rs): the tuple struct              *)
(* `Colour(pub u32)`, its palette constants, from_rgb and the channel      *)
(* accessors, the arithmetic operators and their compound forms, the       *)
(* conversions and Display.                                                *)
(*                                                                         *)
(* Representation.  TLC's integers are 32-bit signed, so a u32 does not    *)
(* fit in one of them.  A u32 is modelled as a pair <<hi, lo>> of 16-bit   *)
(* limbs denoting hi * 65536 + lo, with 0 <= hi, lo < 65536.  So red is    *)
(* the low byte of hi, green the high byte of lo, blue the low byte of lo, *)
(* and "below 2^24" is hi < 256.  A Colour is the 1-tuple <<v>> of such a  *)
(* u32 (the tuple struct), and c[1] is the field `c.0`.                    *)
(*                                                                         *)
(* Build profile.  `+`, `-` and `*` on u32 panic on overflow when the      *)
(* crate is built with overflow checks (the default of debug/test builds)  *)
(* and wrap modulo 2^32 otherwise (the default of release builds).  The    *)
(* profile is the variable overflow_checks, chosen in Init and never       *)
(* changed.  Division by zero panics in every profile.                     *)
(***************************************************************************)
EXTENDS Integers, Sequences, FiniteSets

VARIABLES self, rhs, overflow_checks, op, arg, out

vars == <<self, rhs, overflow_checks, op, arg, out>>

\* Offsets taken around the limb boundaries when drawing u32 inputs.
MaxOff == 1

(***************************************************************************)
(* u32 as two 16-bit limbs                                                 *)
(***************************************************************************)

\* 2^n for 0 <= n <= 16
RECURSIVE Pow2(_)
Pow2(n) == IF n = 0 THEN 1 ELSE 2 * Pow2(n - 1)

\* bitwise AND / OR of two naturals, bit by bit
RECURSIVE BitAnd(_, _)
BitAnd(x, y) ==
    IF x = 0 \/ y = 0 THEN 0
    ELSE (x % 2) * (y % 2) + 2 * BitAnd(x \div 2, y \div 2)

RECURSIVE BitOr(_, _)
BitOr(x, y) ==
    IF x = 0 THEN y
    ELSE IF y = 0 THEN x
    ELSE (IF x % 2 = 1 \/ y % 2 = 1 THEN 1 ELSE 0) + 2 * BitOr(x \div 2, y \div 2)

\* `x & y` and `x | y` on u32
u32_and(x, y) == <<BitAnd(x[1], y[1]), BitAnd(x[2], y[2])>>
u32_or(x, y) == <<BitOr(x[1], y[1]), BitOr(x[2], y[2])>>

\* `x << n` on u32, 0 <= n < 32: bits shifted past bit 31 are dropped
u32_shl(x, n) ==
    IF n >= 16
    THEN <<(x[2] * Pow2(n - 16)) % 65536, 0>>
    ELSE <<(x[1] * Pow2(n) + (x[2] * Pow2(n)) \div 65536) % 65536,
           (x[2] * Pow2(n)) % 65536>>

\* `x >> n` on u32, 0 <= n < 32
u32_shr(x, n) ==
    IF n >= 16
    THEN <<0, x[1] \div Pow2(n - 16)>>
    ELSE <<x[1] \div Pow2(n),
           (x[1] % Pow2(n)) * Pow2(16 - n) + x[2] \div Pow2(n)>>

\* `b as u32` for a u8 b (zero extension) and `x as u8` for a u32 x (truncation)
u8_as_u32(b) == <<0, b>>
u32_as_u8(x) == x[2] % 256

\* the u32 literal n, for 0 <= n < 2^31
u32_lit(n) == <<n \div 65536, n % 65536>>

(***************************************************************************)
(* Results of an operation: a value of some kind, or a panic               *)
(***************************************************************************)

Ok(k, v) == [kind |-> k, val |-> v]
Panic(msg) == [kind |-> "panic", val |-> msg]
IsPanic(r) == r.kind = "panic"

(***************************************************************************)
(* u32 arithmetic as rustc compiles it: the exact result when it fits,     *)
(* otherwise a panic with overflow checks and the wrapped result without   *)
(***************************************************************************)

\* x < y on u32 (numeric order of hi * 65536 + lo)
u32_lt(x, y) == x[1] < y[1] \/ (x[1] = y[1] /\ x[2] < y[2])

\* `x + y` on u32
u32_add(x, y, checks) ==
    LET lo == x[2] + y[2]
        hi == x[1] + y[1] + lo \div 65536
    IN  IF hi >= 65536 /\ checks
        THEN Panic("attempt to add with overflow")
        ELSE Ok("u32", <<hi % 65536, lo % 65536>>)

\* `x - y` on u32
u32_sub(x, y, checks) ==
    LET borrow == IF x[2] < y[2] THEN 1 ELSE 0
        lo == x[2] + 65536 * borrow - y[2]
        hi == x[1] - y[1] - borrow
    IN  IF hi < 0 /\ checks
        THEN Panic("attempt to subtract with overflow")
        ELSE Ok("u32", <<hi % 65536, lo>>)

\* the exact product of two 16-bit limbs, as a u32
Mul16(u, v) ==
    LET u1 == u \div 256
        u0 == u % 256
        v1 == v \div 256
        v0 == v % 256
        low == (u1 * v0 + u0 * v1) * 256 + u0 * v0
    IN  <<u1 * v1 + low \div 65536, low % 65536>>

\* `x * y` on u32
u32_mul(x, y, checks) ==
    LET p0 == Mul16(x[2], y[2])
        c1 == Mul16(x[1], y[2])
        c2 == Mul16(x[2], y[1])
        hi == p0[1] + c1[2] + c2[2]
        overflow == \/ hi >= 65536
                    \/ c1[1] > 0
                    \/ c2[1] > 0
                    \/ (x[1] > 0 /\ y[1] > 0)
    IN  IF overflow /\ checks
        THEN Panic("attempt to multiply with overflow")
        ELSE Ok("u32", <<hi % 65536, p0[2]>>)

\* bit i of a u32, 0 <= i < 32
u32_bit(x, i) ==
    IF i >= 16 THEN (x[1] \div Pow2(i - 16)) % 2 ELSE (x[2] \div Pow2(i)) % 2

\* 2 * w + bit on limb pairs; the high limb is left unreduced (it may take 17 bits)
WideShift(w, bit) ==
    LET lo == 2 * w[2] + bit
    IN  <<2 * w[1] + lo \div 65536, lo % 65536>>

\* w - y on limb pairs, for w >= y
WideSub(w, y) ==
    LET borrow == IF w[2] < y[2] THEN 1 ELSE 0
    IN  <<w[1] - y[1] - borrow, w[2] + 65536 * borrow - y[2]>>

\* binary long division of x by y /= 0 from bit i down to bit 0, given the
\* quotient q and the remainder r of the bits above i; the quotient
RECURSIVE LongDiv(_, _, _, _, _)
LongDiv(x, y, i, q, r) ==
    IF i < 0 THEN q
    ELSE LET r2 == WideShift(r, u32_bit(x, i))
         IN  IF u32_lt(r2, y)
             THEN LongDiv(x, y, i - 1, WideShift(q, 0), r2)
             ELSE LongDiv(x, y, i - 1, WideShift(q, 1), WideSub(r2, y))

\* u32_div with a zero divisor mapped to zero (`checked_div(..).unwrap_or(0)`)
u32_div_zero_as_zero(x, y) ==
    IF y = <<0, 0>>
    THEN Ok("u32", <<0, 0>>)
    ELSE Ok("u32", LongDiv(x, y, 31, <<0, 0>>, <<0, 0>>))

\* `x / y` on u32: panics on a zero divisor in every build profile
u32_div(x, y) ==
    IF y = <<0, 0>>
    THEN Panic("attempt to divide by zero")
    ELSE Ok("u32", LongDiv(x, y, 31, <<0, 0>>, <<0, 0>>))

(***************************************************************************)
(* Colour: the tuple struct, its constants and inherent methods            *)
(***************************************************************************)

\* `Colour(v)` / `Self(v)`: the tuple struct around a u32
Colour(v) == <<v>>

\* `*c` (ops::Deref): the wrapped u32, the field `c.0`
deref(c) == c[1]

WHITE == Colour(u32_lit(16777215))
BLACK == Colour(u32_lit(0))
AQUA == Colour(u32_lit(1752220))
GREEN == Colour(u32_lit(5763719))
BLUE == Colour(u32_lit(3447003))
\* YELLOW with a mistyped literal (0xFFE75C)
YELLOW_mistyped == Colour(u32_lit(16770908))
YELLOW == Colour(u32_lit(16705372))
PURPLE == Colour(u32_lit(10181046))
GOLD == Colour(u32_lit(15844367))
ORANGE == Colour(u32_lit(15105570))
RED == Colour(u32_lit(15548997))
GREY == Colour(u32_lit(9807270))
NAVY == Colour(u32_lit(3426654))
DARK_AQUA == Colour(u32_lit(1146986))
DARK_GREEN == Colour(u32_lit(2067276))
DARK_BLUE == Colour(u32_lit(2123412))
DARK_PURPLE == Colour(u32_lit(7419530))
DARK_GOLD == Colour(u32_lit(12745742))
DARK_ORANGE == Colour(u32_lit(11027200))
DARK_RED == Colour(u32_lit(10038562))
DARK_GREY == Colour(u32_lit(9936031))
DARK_NAVY == Colour(u32_lit(2899536))
LIGHT_GREY == Colour(u32_lit(12370112))

\* the associated constants of `impl Colour`, by name
Palette ==
    [WHITE |-> WHITE, BLACK |-> BLACK, AQUA |-> AQUA, GREEN |-> GREEN,
     BLUE |-> BLUE, YELLOW |-> YELLOW, PURPLE |-> PURPLE, GOLD |-> GOLD,
     ORANGE |-> ORANGE, RED |-> RED, GREY |-> GREY, NAVY |-> NAVY,
     DARK_AQUA |-> DARK_AQUA, DARK_GREEN |-> DARK_GREEN,
     DARK_BLUE |-> DARK_BLUE, DARK_PURPLE |-> DARK_PURPLE,
     DARK_GOLD |-> DARK_GOLD, DARK_ORANGE |-> DARK_ORANGE,
     DARK_RED |-> DARK_RED, DARK_GREY |-> DARK_GREY,
     DARK_NAVY |-> DARK_NAVY, LIGHT_GREY |-> LIGHT_GREY]

\* `Colour::default()` (derive(Default)): the default of the u32 field
default == Colour(u32_lit(0))

\* from_rgb with green shifted into the red byte (`green << 16`)
from_rgb_green_in_red(red, green, blue) ==
    Colour(u32_or(u32_or(u32_shl(u8_as_u32(red), 16),
                         u32_shl(u8_as_u32(green), 16)),
                  u8_as_u32(blue)))

\* `Colour::from_rgb(red, green, blue)`
from_rgb(red, green, blue) ==
    Colour(u32_or(u32_or(u32_shl(u8_as_u32(red), 16),
                         u32_shl(u8_as_u32(green), 8)),
                  u8_as_u32(blue)))

\* `c.red()`, `c.green()`, `c.blue()`
red(c) == u32_as_u8(u32_and(u32_shr(c[1], 16), u32_lit(255)))
green(c) == u32_as_u8(u32_and(u32_shr(c[1], 8), u32_lit(255)))
blue(c) == u32_as_u8(u32_and(c[1], u32_lit(255)))

(***************************************************************************)
(* Operators                                                               *)
(***************************************************************************)

\* wrap a u32 result into a Colour result; a panic passes through
Wrap(r) == IF IsPanic(r) THEN r ELSE Ok("colour", Colour(r.val))

\* ops::Add, ops::Sub, ops::Mul, ops::Div: `Self(*self op *rhs)`
add(a, b, checks) == Wrap(u32_add(deref(a), deref(b), checks))
sub(a, b, checks) == Wrap(u32_sub(deref(a), deref(b), checks))
mul(a, b, checks) == Wrap(u32_mul(deref(a), deref(b), checks))
div(a, b) == Wrap(u32_div(deref(a), deref(b)))

\* the compound forms `*self = *self op rhs`: the receiver after the call
\* when the binary form returns, a panic (receiver not assigned) otherwise
add_assign(a, b, checks) == add(a, b, checks)
\* sub_assign delegating to the addition (`*self = *self + rhs`)
sub_assign_adds(a, b, checks) == add(a, b, checks)
sub_assign(a, b, checks) == sub(a, b, checks)
mul_assign(a, b, checks) == mul(a, b, checks)
div_assign(a, b) == div(a, b)

(***************************************************************************)
(* Conversions                                                             *)
(***************************************************************************)

\* From<u32> keeping only the low 24 bits (`Colour(colour & 0xffffff)`)
from_u32_masked(colour) == Colour(<<colour[1] % 256, colour[2]>>)

\* From<u32> for Colour, From<Colour> for u32
from_u32(colour) == Colour(colour)
into_u32(colour) == deref(colour)

\* From<(u8, u8, u8)> for Colour, From<Colour> for (u8, u8, u8)
from_tuple(t) == from_rgb(t[1], t[2], t[3])
\* the tuple in blue, green, red order
into_tuple_bgr(colour) == <<blue(colour), green(colour), red(colour)>>
into_tuple(colour) == <<red(colour), green(colour), blue(colour)>>

(***************************************************************************)
(* derive(PartialEq, Eq, PartialOrd, Ord): comparison of the single field  *)
(***************************************************************************)

eq(a, b) == a[1] = b[1]

\* comparison of the low 24 bits only
cmp_low24(a, b) ==
    IF u32_lt(<<a[1][1] % 256, a[1][2]>>, <<b[1][1] % 256, b[1][2]>>) THEN "Less"
    ELSE IF <<a[1][1] % 256, a[1][2]>> = <<b[1][1] % 256, b[1][2]>> THEN "Equal"
    ELSE "Greater"

cmp(a, b) ==
    IF u32_lt(a[1], b[1]) THEN "Less"
    ELSE IF a[1] = b[1] THEN "Equal"
    ELSE "Greater"

lt(a, b) == cmp(a, b) = "Less"

(***************************************************************************)
(* fmt::Display: `write!(f, "#{:x}", self.0)`.  A string is the sequence   *)
(* of its characters.                                                      *)
(***************************************************************************)

HexDigits == <<"0", "1", "2", "3", "4", "5", "6", "7",
               "8", "9", "a", "b", "c", "d", "e", "f">>

\* x / 16 on u32
u32_shr4(x) == <<x[1] \div 16, ((x[1] % 16) * 65536 + x[2]) \div 16>>

\* `{:x}` of a u32: the digits from the least significant one up, until
\* the rest is zero (so at least one digit and no leading zero)
RECURSIVE LowerHex(_)
LowerHex(x) ==
    LET d == <<HexDigits[(x[2] % 16) + 1]>>
        rest == u32_shr4(x)
    IN  IF rest = <<0, 0>> THEN d ELSE LowerHex(rest) \o d

\* Display padded with zeros to six digits (`"#{:06x}"`)
fmt_padded(c) ==
    LET d == LowerHex(c[1])
    IN  <<"#">> \o [i \in 1 .. (IF Len(d) < 6 THEN 6 - Len(d) ELSE 0) |-> "0"] \o d

fmt(c) == <<"#">> \o LowerHex(c[1])

(***************************************************************************)
(* Inputs                                                                  *)
(***************************************************************************)

\* low limbs within MaxOff of the ends of the limb range
LoSamples == (0 .. MaxOff) \cup {65535 - k : k \in 0 .. MaxOff}

\* high limbs: none, the red byte full, bit 24, bit 31, all ones
HiSamples == {0, 255, 256, 32768, 65535}

\* the operands of the examples in the documentation (2, 3, 5, 6, 10, 0xff)
DocSamples == {u32_lit(n) : n \in {2, 3, 5, 6, 10, 255}}

U32Samples == {<<h, l>> : h \in HiSamples, l \in LoSamples} \cup DocSamples

ByteSamples == {0, 1, 92, 128, 231, 254, 255}

(***************************************************************************)
(* State: a receiver `self` and an operand `rhs` (both Colour, Copy), the  *)
(* build profile, the last operation `op`, the arguments `arg` of the      *)
(* constructor that made `self` (<<>> when it was built directly or has    *)
(* been assigned since) and the value `out` the last operation returned.   *)
(***************************************************************************)

Unit == Ok("unit", <<>>)

Init ==
    /\ self \in {Colour(v) : v \in U32Samples}
    /\ rhs \in {Colour(v) : v \in U32Samples}
    /\ overflow_checks \in BOOLEAN
    /\ op = "new"
    /\ arg = <<>>
    /\ out = Unit

\* `self` has been constructed and no operation has been applied to it yet
Fresh == op \in {"new", "from_rgb", "from_u32", "default", "const"}

\* ---- constructors ----

FromRgb ==
    /\ op = "new"
    /\ \E r \in ByteSamples, g \in ByteSamples, b \in ByteSamples :
          /\ self' = from_rgb(r, g, b)
          /\ arg' = <<r, g, b>>
    /\ op' = "from_rgb"
    /\ UNCHANGED <<rhs, overflow_checks, out>>

FromU32 ==
    /\ op = "new"
    /\ \E v \in U32Samples :
          /\ self' = from_u32(v)
          /\ arg' = <<v>>
    /\ op' = "from_u32"
    /\ UNCHANGED <<rhs, overflow_checks, out>>

Default ==
    /\ op = "new"
    /\ self' = default
    /\ arg' = <<>>
    /\ op' = "default"
    /\ UNCHANGED <<rhs, overflow_checks, out>>

Const ==
    /\ op = "new"
    /\ \E n \in DOMAIN Palette : self' = Palette[n]
    /\ arg' = <<>>
    /\ op' = "const"
    /\ UNCHANGED <<rhs, overflow_checks, out>>

\* ---- operations that return a value and leave `self` alone ----

Returns(name, r) ==
    /\ Fresh
    /\ op' = name
    /\ out' = r
    /\ UNCHANGED <<self, rhs, overflow_checks, arg>>

Add == Returns("add", add(self, rhs, overflow_checks))
Sub == Returns("sub", sub(self, rhs, overflow_checks))
Mul == Returns("mul", mul(self, rhs, overflow_checks))
Div == Returns("div", div(self, rhs))

Red == Returns("red", Ok("u8", red(self)))
Green == Returns("green", Ok("u8", green(self)))
Blue == Returns("blue", Ok("u8", blue(self)))

Deref == Returns("deref", Ok("u32", deref(self)))
IntoU32 == Returns("into_u32", Ok("u32", into_u32(self)))
IntoTuple == Returns("into_tuple", Ok("tuple", into_tuple(self)))

Eq == Returns("eq", Ok("bool", eq(self, rhs)))
Lt == Returns("lt", Ok("bool", lt(self, rhs)))
Cmp == Returns("cmp", Ok("ordering", cmp(self, rhs)))

Fmt == Returns("fmt", Ok("string", fmt(self)))

\* the tuple a conversion has just returned, converted back to a Colour
FromTuple ==
    /\ op = "into_tuple"
    /\ op' = "from_tuple"
    /\ out' = Ok("colour", from_tuple(out.val))
    /\ UNCHANGED <<self, rhs, overflow_checks, arg>>

\* ---- operations that assign to `self` ----

Assigns(name, r) ==
    /\ Fresh
    /\ op' = name
    /\ IF IsPanic(r)
       THEN /\ out' = r
            /\ UNCHANGED <<self, arg>>
       ELSE /\ out' = Unit
            /\ self' = r.val
            /\ arg' = <<>>
    /\ UNCHANGED <<rhs, overflow_checks>>

AddAssign == Assigns("add_assign", add_assign(self, rhs, overflow_checks))
SubAssign == Assigns("sub_assign", sub_assign(self, rhs, overflow_checks))
MulAssign == Assigns("mul_assign", mul_assign(self, rhs, overflow_checks))
DivAssign == Assigns("div_assign", div_assign(self, rhs))

\* `*c = v` through ops::DerefMut
DerefMut ==
    /\ Fresh
    /\ \E v \in U32Samples : self' = <<v>>
    /\ op' = "deref_mut"
    /\ arg' = <<>>
    /\ out' = Unit
    /\ UNCHANGED <<rhs, overflow_checks>>

Next ==
    \/ FromRgb
    \/ FromU32
    \/ Default
    \/ Const
    \/ Add
    \/ Sub
    \/ Mul
    \/ Div
    \/ Red
    \/ Green
    \/ Blue
    \/ Deref
    \/ IntoU32
    \/ IntoTuple
    \/ Eq
    \/ Lt
    \/ Cmp
    \/ Fmt
    \/ FromTuple
    \/ AddAssign
    \/ SubAssign
    \/ MulAssign
    \/ DivAssign
    \/ DerefMut

Spec == Init /\ [][Next]_vars

(***************************************************************************)
(* Properties                                                              *)
(***************************************************************************)

Zero == Colour(<<0, 0>>)

\* C1: for all bytes r, g, b the colour from_rgb(r, g, b) has red r, green
\* g and blue b, and wraps r * 65536 + g * 256 + b (high limb r, low limb
\* g * 256 + b), which is below 2^24.
C1_FromRgbChannels ==
    /\ op = "from_rgb" =>
          /\ red(self) = arg[1]
          /\ green(self) = arg[2]
          /\ blue(self) = arg[3]
          /\ self[1] = <<arg[1], arg[2] * 256 + arg[3]>>
          /\ self[1][1] < 256
    /\ op = "red" /\ Len(arg) = 3 => out = Ok("u8", arg[1])
    /\ op = "green" /\ Len(arg) = 3 => out = Ok("u8", arg[2])
    /\ op = "blue" /\ Len(arg) = 3 => out = Ok("u8", arg[3])

C1_Witness ==
    /\ op = "green"
    /\ arg = <<255, 128, 1>>
    /\ out = Ok("u8", 128)

\* C2: converting a Colour to a tuple and back gives the Colour whose value
\* is the original value with bits 24-31 cleared, hence the original
\* Colour itself when its value is below 2^24.
C2_TupleRoundTrip ==
    op = "from_tuple" =>
        /\ out = Ok("colour", Colour(<<self[1][1] % 256, self[1][2]>>))
        /\ self[1][1] < 256 => out.val = self

C2_Witness ==
    /\ op = "from_tuple"
    /\ self = Colour(<<65535, 65534>>)
    /\ out.val = Colour(<<255, 65534>>)

\* C3: dividing by a Colour whose value is zero, with / or /=, always
\* panics and never returns a Colour, whatever the left operand.
C3_DivByZeroFaults ==
    op \in {"div", "div_assign"} /\ rhs = Zero => IsPanic(out)

C3_Witness ==
    /\ op = "div_assign"
    /\ self = Colour(u32_lit(10))
    /\ rhs = Zero
    /\ IsPanic(out)

\* C4: every operation other than a division by a zero-valued Colour
\* returns a value and never panics.
C4_TotalExceptDivByZero ==
    ~(op \in {"div", "div_assign"} /\ rhs = Zero) => ~IsPanic(out)

\* C5: a + b, a - b and a * b are the Colour of the integer result on the
\* two wrapped values reduced modulo 2^32.
C5_WrappingArithmetic ==
    /\ op = "add" => out = Ok("colour", Colour(u32_add(self[1], rhs[1], FALSE).val))
    /\ op = "sub" => out = Ok("colour", Colour(u32_sub(self[1], rhs[1], FALSE).val))
    /\ op = "mul" => out = Ok("colour", Colour(u32_mul(self[1], rhs[1], FALSE).val))

\* C6: whenever the binary form of an operator returns a value, the
\* compound form leaves the receiver equal to that value and leaves the
\* right operand unchanged.
C6_CompoundStep(name, r) ==
    Fresh /\ op' = name /\ ~IsPanic(r) =>
        /\ self' = r.val
        /\ rhs' = rhs
        /\ out' = Unit

C6_CompoundEqualsBinary ==
    [][/\ C6_CompoundStep("add_assign", add(self, rhs, overflow_checks))
       /\ C6_CompoundStep("sub_assign", sub(self, rhs, overflow_checks))
       /\ C6_CompoundStep("mul_assign", mul(self, rhs, overflow_checks))
       /\ C6_CompoundStep("div_assign", div(self, rhs))]_vars

C6_Witness ==
    /\ op = "add_assign"
    /\ self = Colour(u32_lit(8))
    /\ rhs = Colour(u32_lit(3))
    /\ out = Unit

\* C7: wrapping a u32 into a Colour and unwrapping it, by u32::from or by
\* dereferencing, gives back exactly that u32, bits above bit 23 included.
C7_U32RoundTrip ==
    /\ op = "from_u32" => self = <<arg[1]>>
    /\ op \in {"into_u32", "deref"} => out = Ok("u32", self[1])
    /\ op \in {"into_u32", "deref"} /\ Len(arg) = 1 => out = Ok("u32", arg[1])

C7_Witness ==
    /\ op = "into_u32"
    /\ arg = <<(<<65535, 65535>>)>>
    /\ out = Ok("u32", <<65535, 65535>>)

\* numeric order of two u32 values given as limb pairs
NumLess(x, y) == x[1] < y[1] \/ (x[1] = y[1] /\ x[2] < y[2])

\* C8: a == b exactly when the wrapped integers are equal, a < b exactly
\* when a's wrapped integer is numerically smaller, and the order is total
\* over the full 32-bit value.
C8_OrderIsNumeric ==
    /\ op = "eq" => (out.val <=> self[1] = rhs[1])
    /\ op = "lt" => (out.val <=> NumLess(self[1], rhs[1]))
    /\ op = "cmp" =>
          /\ out.val = "Less" <=> NumLess(self[1], rhs[1])
          /\ out.val = "Equal" <=> self[1] = rhs[1]
          /\ out.val = "Greater" <=> NumLess(rhs[1], self[1])

C8_Witness ==
    /\ op = "lt"
    /\ self = Colour(<<255, 65535>>)
    /\ rhs = Colour(<<256, 0>>)
    /\ out = Ok("bool", TRUE)

\* the lowercase hexadecimal digit characters and the value each stands for
LowerHexChars == {"0", "1", "2", "3", "4", "5", "6", "7",
                  "8", "9", "a", "b", "c", "d", "e", "f"}

HexValue(ch) ==
    CASE ch = "0" -> 0 [] ch = "1" -> 1 [] ch = "2" -> 2 [] ch = "3" -> 3
      [] ch = "4" -> 4 [] ch = "5" -> 5 [] ch = "6" -> 6 [] ch = "7" -> 7
      [] ch = "8" -> 8 [] ch = "9" -> 9 [] ch = "a" -> 10 [] ch = "b" -> 11
      [] ch = "c" -> 12 [] ch = "d" -> 13 [] ch = "e" -> 14 [] ch = "f" -> 15

\* the u32 a string of at most 8 hexadecimal digits denotes, after acc
RECURSIVE ParseHex(_, _)
ParseHex(s, acc) ==
    IF s = <<>> THEN acc
    ELSE ParseHex(Tail(s),
                  <<acc[1] * 16 + (acc[2] * 16) \div 65536,
                    (acc[2] * 16 + HexValue(Head(s))) % 65536>>)

\* C9: the string form of a Colour is '#' followed by the lowercase
\* hexadecimal digits of the full 32-bit value, at least one digit and no
\* leading zero, so the digits parsed in base 16 give back the value;
\* 0 gives "#0", 0xff gives "#ff" and 0xffffff gives "#ffffff".
C9_DisplayIsHashLowerHex ==
    op = "fmt" =>
        /\ out.kind = "string"
        /\ Len(out.val) \in 2 .. 9
        /\ out.val[1] = "#"
        /\ \A i \in 2 .. Len(out.val) : out.val[i] \in LowerHexChars
        /\ Len(out.val) > 2 => out.val[2] # "0"
        /\ ParseHex(Tail(out.val), <<0, 0>>) = self[1]
        /\ self[1] = <<0, 0>> => out.val = <<"#", "0">>
        /\ self[1] = <<0, 255>> => out.val = <<"#", "f", "f">>
        /\ self[1] = <<255, 65535>> => out.val = <<"#", "f", "f", "f", "f", "f", "f">>

C9_Witness ==
    /\ op = "fmt"
    /\ self = Colour(<<0, 255>>)
    /\ out = Ok("string", <<"#", "f", "f">>)

\* C10: the palette has exactly 22 named constants, each below 2^24;
\* from_rgb(254, 231, 92) equals YELLOW (0xFEE75C), BLUE converts to the
\* tuple (52, 152, 219), and the default Colour has value 0 and equals BLACK.
C10_Palette ==
    /\ Cardinality(DOMAIN Palette) = 22
    /\ \A n \in DOMAIN Palette : Palette[n][1][1] < 256
    /\ op = "from_rgb" /\ arg = <<254, 231, 92>> =>
          /\ self = YELLOW
          /\ self[1] = <<254, 59228>>
    /\ op = "into_tuple" /\ self = BLUE => out = Ok("tuple", <<52, 152, 219>>)
    /\ op = "default" => self[1] = <<0, 0>> /\ self = BLACK

C10_Witness ==
    /\ op = "from_rgb"
    /\ arg = <<254, 231, 92>>
    /\ self = YELLOW

====
